---- MODULE Spec2Model ----
(***************************************************************************)
(* groupcalc: an interactive calculator that collects a set of i32         *)
(* elements and an identity candidate and checks the four group axioms     *)
(* under op(a, b, m) = (a + b) % m, m the cardinality of the set.          *)
(*                                                                         *)
(* The model follows src/main.rs: the command loop of run(), the parsing   *)
(* of the prompted lines, the HashSet of elements (kept as the sequence    *)
(* in which the set iterates), the i32 arithmetic of the operation and     *)
(* the four axiom checks with the short-circuit of all()/any().            *)
(***************************************************************************)
EXTENDS Integers, Sequences, FiniteSets, TLC

----------------------------------------------------------------------------
(* Bounds of the model *)

\* the integers the user enters are -1, 0..MaxElem and i32::MAX
MaxElem == 2

\* largest number of elements the working set is let grow to
MaxSize == 3

----------------------------------------------------------------------------
(* i32 *)

I32_MAX == 2147483647

I32_MIN == -2147483647 - 1

\* a + b leaves the i32 range
AddOverflows(a, b) ==
    \/ a > 0 /\ b > I32_MAX - a
    \/ a < 0 /\ b < I32_MIN - a

\* a + b modulo 2^32, as a two's complement i32 (no intermediate value
\* leaves the i32 range)
WrappingAdd(a, b) ==
    IF a > 0 /\ b > I32_MAX - a THEN (a - I32_MAX - 1) + (b - I32_MAX - 1)
    ELSE IF a < 0 /\ b < I32_MIN - a THEN (a - I32_MIN) + (b - I32_MIN)
    ELSE a + b

\* Rust's a % n for n # 0: the remainder of the truncating division, which
\* takes the sign of a
Rem(a, n) ==
    LET d == IF n < 0 THEN -n ELSE n
    IN IF a >= 0 THEN a % d
       ELSE IF a = I32_MIN THEN -((-(a + d)) % d)
       ELSE -((-a) % d)

\* the result of an evaluation: a value of type i32, or a panic
Value(v) == [ok |-> TRUE, val |-> v]

Panic == [ok |-> FALSE, val |-> 0]

\* Result<i32, ParseIntError>
Ok(v) == [ok |-> TRUE, val |-> v]

Err == [ok |-> FALSE, val |-> 0]

\* a + b without the remainder
operation_no_modulus(a, b, m, checks) ==
    IF AddOverflows(a, b) /\ checks THEN Panic
    ELSE Value(WrappingAdd(a, b))

\* the closure |a, b, m| (a + b) % m as i32. a + b is evaluated first: with
\* overflow checks (debug profile) a sum outside i32 panics, without them
\* (release profile) it wraps. The remainder panics on a zero divisor and
\* on i32::MIN % -1. m is a cardinality below 2^31, which the cast
\* m as i32 keeps as it is.
operation(a, b, m, checks) ==
    IF AddOverflows(a, b) /\ checks THEN Panic
    ELSE LET sum == WrappingAdd(a, b)
         IN IF m = 0 THEN Panic
            ELSE IF sum = I32_MIN /\ m = -1 THEN Panic
            ELSE Value(Rem(sum, m))

----------------------------------------------------------------------------
(* Lines of text: sequences of one-character strings *)

CMD_ADD == <<"a", "d", "d">>

CMD_IDENTITY == <<"i", "d", "e", "n", "t", "i", "t", "y">>

CMD_LIST == <<"l", "i", "s", "t">>

CMD_HELP == <<"h", "e", "l", "p">>

CMD_CREATE == <<"c", "r", "e", "a", "t", "e">>

CMD_EXIT == <<"e", "x", "i", "t">>

Whitespace == {" ", "\t", "\n", "\r"}

Range(h) == {h[i] : i \in 1..Len(h)}

RECURSIVE TrimStart(_)
TrimStart(s) ==
    IF s # <<>> /\ Head(s) \in Whitespace THEN TrimStart(Tail(s)) ELSE s

RECURSIVE TrimEnd(_)
TrimEnd(s) ==
    IF s # <<>> /\ s[Len(s)] \in Whitespace
    THEN TrimEnd(SubSeq(s, 1, Len(s) - 1))
    ELSE s

\* str::trim
Trim(s) == TrimEnd(TrimStart(s))

\* user_prompt on a successful read: the line read, trimmed
user_prompt(raw) == Trim(raw)

Digits == <<"0", "1", "2", "3", "4", "5", "6", "7", "8", "9">>

\* the value of each decimal digit
DigitOf == [c \in Range(Digits) |-> CHOOSE d \in 0..9 : Digits[d + 1] = c]

\* char::to_digit(10); -1 stands for None
to_digit(c) == IF c \in DOMAIN DigitOf THEN DigitOf[c] ELSE -1

\* the digit loop of i32::from_str: checked_mul(10), then checked_add of
\* the digit for a positive number and checked_sub for a negative one
RECURSIVE Accumulate(_, _, _)
Accumulate(digits, result, positive) ==
    IF digits = <<>> THEN Ok(result)
    ELSE LET d == to_digit(Head(digits))
         IN IF d = -1 THEN Err
            ELSE IF result > I32_MAX \div 10 \/ result < -(I32_MAX \div 10)
            THEN Err
            ELSE IF positive
            THEN IF result * 10 > I32_MAX - d THEN Err
                 ELSE Accumulate(Tail(digits), result * 10 + d, positive)
            ELSE IF result * 10 < I32_MIN + d THEN Err
                 ELSE Accumulate(Tail(digits), result * 10 - d, positive)

\* i32::from_str: ok with the value, or not ok (Err of any kind). The
\* empty string, a lone sign, a character that is not a digit and a value
\* outside i32 are errors.
from_str(src) ==
    IF src = <<>> THEN Err
    ELSE IF Head(src) \in {"+", "-"} /\ Len(src) = 1 THEN Err
    ELSE IF Head(src) = "+" THEN Accumulate(Tail(src), 0, TRUE)
    ELSE IF Head(src) = "-" THEN Accumulate(Tail(src), 0, FALSE)
    ELSE Accumulate(src, 0, TRUE)

----------------------------------------------------------------------------
(* What the user types *)

RECURSIVE Decimal(_)
Decimal(n) ==
    IF n < 10 THEN <<Digits[n + 1]>>
    ELSE Decimal(n \div 10) \o <<Digits[(n % 10) + 1]>>

Numeral(v) == IF v < 0 THEN <<"-">> \o Decimal(-v) ELSE Decimal(v)

I32MaxText == <<"2", "1", "4", "7", "4", "8", "3", "6", "4", "7">>

AddFiveFive == <<"a", "d", "d", " ", "5", " ", "5">>

\* the integers the user enters: -1, 0..MaxElem and i32::MAX
Entered ==
    {Numeral(v) : v \in -1..MaxElem} \cup {I32MaxText}

\* read_line keeps the newline that ends the line.
\* The lines typed at the command prompt:
CommandLines ==
    {t \o <<"\n">> : t \in
        {CMD_ADD, CMD_IDENTITY, CMD_LIST, CMD_HELP, CMD_CREATE, CMD_EXIT,
         <<" ", "l", "i", "s", "t", " ">>,
         AddFiveFive,
         <<"5">>,
         <<>>}}

\* The lines typed at the prompts of add and identity: integers, an
\* integer after a blank, two integers, an integer one above i32::MAX and
\* the empty line
ElementLines ==
    {t \o <<"\n">> : t \in
        Entered \cup
        {<<" ", "+", "1">>,
         <<"5", " ", "5">>,
         <<"2", "1", "4", "7", "4", "8", "3", "6", "4", "8">>,
         <<>>}}

\* user_prompt(MAIN_PROMPT)?.as_str(): what the command prompt may return
CommandInputs == {user_prompt(raw) : raw \in CommandLines}

\* i32::from_str(&user_prompt(..)?): what the second prompt may return
\* (text), and what the parse makes of it (num)
ElementInputs ==
    {[text |-> user_prompt(raw), num |-> from_str(user_prompt(raw))] :
        raw \in ElementLines}

----------------------------------------------------------------------------
(* HashSet<i32>, kept as the sequence in which the set iterates *)

\* the sequences that enumerate the set S once
RECURSIVE Orders(_)
Orders(S) ==
    IF S = {} THEN {<<>>}
    ELSE UNION {{<<x>> \o p : p \in Orders(S \ {x})} : x \in S}

\* an insert that does not look for the value first
insert_duplicate(h, v) == {Append(h, v)}

\* HashSet::insert: a value already present leaves the set as it is; a new
\* value lands in the bucket its hash names, and a growing table is
\* rehashed, so that the set may iterate in any order afterwards
insert(h, v) == IF v \in Range(h) THEN {h} ELSE Orders(Range(h) \cup {v})

----------------------------------------------------------------------------
(* struct Group: self is [elements |-> the set as it iterates,            *)
(* identity |-> i32]; checks tells whether the build checks overflow.      *)
(* A check comes out "true", "false" or "panic". The iterations of all()   *)
(* and any() take the items in order from an index on: all() ends at the   *)
(* first outcome that is not "true", any() at the first that is not        *)
(* "false".                                                                *)

\* p && q: q is evaluated when p is true
AndThen(p, q) == IF p = "true" THEN q ELSE p

\* o == v, o an evaluation that may have panicked
Equals(o, v) ==
    IF ~o.ok THEN "panic" ELSE IF o.val = v THEN "true" ELSE "false"

\* o1 == o2, o1 evaluated before o2
EqualsBoth(o1, o2) ==
    IF ~o1.ok \/ ~o2.ok THEN "panic"
    ELSE IF o1.val = o2.val THEN "true" ELSE "false"

\* self.elements.contains(&o)
Contains(self, o) ==
    IF ~o.ok THEN "panic"
    ELSE IF o.val \in Range(self.elements) THEN "true" ELSE "false"

\* is_closed, the inner all(): y from the j-th element on
RECURSIVE ClosedInner(_, _, _, _)
ClosedInner(self, x, j, checks) ==
    IF j > Len(self.elements) THEN "true"
    ELSE LET modulus == Len(self.elements)
             v == Contains(self,
                      operation(x, self.elements[j], modulus, checks))
         IN IF v = "true" THEN ClosedInner(self, x, j + 1, checks) ELSE v

\* is_closed, the outer all(): x from the i-th element on
RECURSIVE ClosedOuter(_, _, _)
ClosedOuter(self, i, checks) ==
    IF i > Len(self.elements) THEN "true"
    ELSE LET v == ClosedInner(self, self.elements[i], 1, checks)
         IN IF v = "true" THEN ClosedOuter(self, i + 1, checks) ELSE v

\* a closure check that passes whatever the set
is_closed_always(self, checks) == "true"

is_closed(self, checks) == ClosedOuter(self, 1, checks)

\* has_identity, the all(): x from the i-th element on
RECURSIVE IdentityAll(_, _, _)
IdentityAll(self, i, checks) ==
    IF i > Len(self.elements) THEN "true"
    ELSE LET modulus == Len(self.elements)
             x == self.elements[i]
             v == AndThen(
                    Equals(operation(x, self.identity, modulus, checks), x),
                    Equals(operation(self.identity, x, modulus, checks), x))
         IN IF v = "true" THEN IdentityAll(self, i + 1, checks) ELSE v

has_identity(self, checks) == IdentityAll(self, 1, checks)

\* has_inverses, the any(): b from the j-th element on
RECURSIVE InversesAny(_, _, _, _)
InversesAny(self, a, j, checks) ==
    IF j > Len(self.elements) THEN "false"
    ELSE LET modulus == Len(self.elements)
             b == self.elements[j]
             v == AndThen(
                    Equals(operation(a, b, modulus, checks), self.identity),
                    Equals(operation(b, a, modulus, checks), self.identity))
         IN IF v = "false" THEN InversesAny(self, a, j + 1, checks) ELSE v

\* has_inverses, the all(): a from the i-th element on
RECURSIVE InversesAll(_, _, _)
InversesAll(self, i, checks) ==
    IF i > Len(self.elements) THEN "true"
    ELSE LET v == InversesAny(self, self.elements[i], 1, checks)
         IN IF v = "true" THEN InversesAll(self, i + 1, checks) ELSE v

\* an inverse check that passes whatever the set
has_inverses_always(self, checks) == "true"

has_inverses(self, checks) == InversesAll(self, 1, checks)

\* (self.operation)(&(self.operation)(a, b, m), c, m)
OpLeft(a, b, c, m, checks) ==
    LET ab == operation(a, b, m, checks)
    IN IF ab.ok THEN operation(ab.val, c, m, checks) ELSE Panic

\* (self.operation)(a, &(self.operation)(b, c, m), m)
OpRight(a, b, c, m, checks) ==
    LET bc == operation(b, c, m, checks)
    IN IF bc.ok THEN operation(a, bc.val, m, checks) ELSE Panic

\* is_associative, the innermost all(): c from the k-th element on
RECURSIVE AssociativeInner(_, _, _, _, _)
AssociativeInner(self, a, b, k, checks) ==
    IF k > Len(self.elements) THEN "true"
    ELSE LET modulus == Len(self.elements)
             c == self.elements[k]
             v == EqualsBoth(OpLeft(a, b, c, modulus, checks),
                             OpRight(a, b, c, modulus, checks))
         IN IF v = "true" THEN AssociativeInner(self, a, b, k + 1, checks)
            ELSE v

\* is_associative, the middle all(): b from the j-th element on
RECURSIVE AssociativeMiddle(_, _, _, _)
AssociativeMiddle(self, a, j, checks) ==
    IF j > Len(self.elements) THEN "true"
    ELSE LET v == AssociativeInner(self, a, self.elements[j], 1, checks)
         IN IF v = "true" THEN AssociativeMiddle(self, a, j + 1, checks)
            ELSE v

\* is_associative, the outer all(): a from the i-th element on
RECURSIVE AssociativeOuter(_, _, _)
AssociativeOuter(self, i, checks) ==
    IF i > Len(self.elements) THEN "true"
    ELSE LET v == AssociativeMiddle(self, self.elements[i], 1, checks)
         IN IF v = "true" THEN AssociativeOuter(self, i + 1, checks) ELSE v

is_associative(self, checks) == AssociativeOuter(self, 1, checks)

AXIOM_CLOSURE == "Closure"

AXIOM_ASSOCIATIVE == "Associativity"

AXIOM_IDENTITY == "Identity"

AXIOM_INVERSE == "Inverse"

Axioms == <<AXIOM_CLOSURE, AXIOM_ASSOCIATIVE, AXIOM_IDENTITY, AXIOM_INVERSE>>

MSG_CLOSURE == "Group is not closed under the operation."

MSG_ASSOCIATIVE == "Operation is not associative."

MSG_IDENTITY == "No valid identity element found."

MSG_INVERSE == "Not all elements have inverses."

\* the Vec errors after the four if blocks, given the outcomes of the checks
Pushed(closed, associative, has_id, has_inv) ==
    (IF closed # "true" THEN <<MSG_CLOSURE>> ELSE <<>>)
    \o (IF associative # "true" THEN <<MSG_ASSOCIATIVE>> ELSE <<>>)
    \o (IF has_id # "true" THEN <<MSG_IDENTITY>> ELSE <<>>)
    \o (IF has_inv # "true" THEN <<MSG_INVERSE>> ELSE <<>>)

\* the body of is_valid_group, given the outcomes of the four checks: a
\* check that panics ends the thread there; otherwise each failure pushes
\* its message and the result is Ok for no message, Err for some
Collect(closed, associative, has_id, has_inv) ==
    IF closed = "panic"
    THEN [outcome |-> "panic", errors |-> <<>>,
          evaluated |-> SubSeq(Axioms, 1, 1)]
    ELSE IF associative = "panic"
    THEN [outcome |-> "panic", errors |-> <<>>,
          evaluated |-> SubSeq(Axioms, 1, 2)]
    ELSE IF has_id = "panic"
    THEN [outcome |-> "panic", errors |-> <<>>,
          evaluated |-> SubSeq(Axioms, 1, 3)]
    ELSE IF has_inv = "panic"
    THEN [outcome |-> "panic", errors |-> <<>>, evaluated |-> Axioms]
    ELSE [outcome |->
             IF Pushed(closed, associative, has_id, has_inv) = <<>>
             THEN "Ok" ELSE "Err",
          errors |-> Pushed(closed, associative, has_id, has_inv),
          evaluated |-> Axioms]

\* a body that returns at the first axiom that fails
CollectFirstOnly(closed, associative, has_id, has_inv) ==
    IF closed # "true"
    THEN [outcome |-> IF closed = "panic" THEN "panic" ELSE "Err",
          errors |-> IF closed = "panic" THEN <<>> ELSE <<MSG_CLOSURE>>,
          evaluated |-> SubSeq(Axioms, 1, 1)]
    ELSE IF associative # "true"
    THEN [outcome |-> IF associative = "panic" THEN "panic" ELSE "Err",
          errors |-> IF associative = "panic" THEN <<>>
                     ELSE <<MSG_ASSOCIATIVE>>,
          evaluated |-> SubSeq(Axioms, 1, 2)]
    ELSE IF has_id # "true"
    THEN [outcome |-> IF has_id = "panic" THEN "panic" ELSE "Err",
          errors |-> IF has_id = "panic" THEN <<>> ELSE <<MSG_IDENTITY>>,
          evaluated |-> SubSeq(Axioms, 1, 3)]
    ELSE IF has_inv # "true"
    THEN [outcome |-> IF has_inv = "panic" THEN "panic" ELSE "Err",
          errors |-> IF has_inv = "panic" THEN <<>> ELSE <<MSG_INVERSE>>,
          evaluated |-> Axioms]
    ELSE [outcome |-> "Ok", errors |-> <<>>, evaluated |-> Axioms]

\* a validation that returns at the first axiom that fails
is_valid_group_first_only(self, checks) ==
    CHOOSE result \in
        {CollectFirstOnly(closed, associative, has_id, has_inv) :
            closed \in {is_closed(self, checks)},
            associative \in {is_associative(self, checks)},
            has_id \in {has_identity(self, checks)},
            has_inv \in {has_inverses(self, checks)}} : TRUE

\* is_valid_group: the four checks are called one after the other, in the
\* order closure, associativity, identity, inverses.
\* outcome is "Ok", "Err" (with the messages pushed) or "panic";
\* evaluated lists the checks that were called.
is_valid_group(self, checks) ==
    CHOOSE result \in
        {Collect(closed, associative, has_id, has_inv) :
            closed \in {is_closed(self, checks)},
            associative \in {is_associative(self, checks)},
            has_id \in {has_identity(self, checks)},
            has_inv \in {has_inverses(self, checks)}} : TRUE

\* Group::new: the group is built, then validated
new(elements, identity, checks) ==
    is_valid_group([elements |-> elements, identity |-> identity], checks)

----------------------------------------------------------------------------
(* The session: the state of run() *)

VARIABLES
    elements,         \* the HashSet of run(), as the sequence it iterates in
    identity,         \* Option<i32>: {} is None, {v} is Some(v)
    overflow_checks,  \* the build panics on i32 overflow (debug profile)
    pc,               \* "loop", "done" (exit), "io_error" (run returned
                      \* Err), "panicked"
    cmd,              \* the command line of the last iteration, trimmed
                      \* ({} when none was read)
    arg,              \* the line read at the second prompt, trimmed
                      \* ({} when none was read)
    out,              \* what the last iteration printed on stdout
    errors,           \* the messages of the Err the last validation returned
    evaluated,        \* the axiom checks the last iteration called
    inserted          \* what elements.insert returned in the last iteration

vars == <<elements, identity, overflow_checks, pc, cmd, arg, out, errors,
          evaluated, inserted>>

None == {}

Some(v) == {v}

Unwrap(o) == CHOOSE v \in o : TRUE

OUT_ADDED == "Element added."

OUT_INVALID == "Invalid input, please enter an integer."

OUT_IDENTITY_SET == "Identity set."

OUT_LIST == "Current elements"

OUT_HELP == "Available commands:"

OUT_CREATED == "Group created"

OUT_CREATE_ERROR == "Error creating group"

OUT_NOT_SET == "Identity element not set."

OUT_UNKNOWN == "Unknown command."

Commands ==
    {CMD_ADD, CMD_IDENTITY, CMD_LIST, CMD_HELP, CMD_CREATE, CMD_EXIT}

Init ==
    /\ elements = <<>>
    /\ identity = None
    /\ overflow_checks \in BOOLEAN
    /\ pc = "loop"
    /\ cmd = None
    /\ arg = None
    /\ out = ""
    /\ errors = <<>>
    /\ evaluated = <<>>
    /\ inserted = FALSE

\* an iteration that read the command c (and the line a), printed o and
\* validated nothing
Printed(c, a, o) ==
    /\ cmd' = c
    /\ arg' = a
    /\ out' = o
    /\ errors' = <<>>
    /\ evaluated' = <<>>

\* CMD_ADD
CmdAdd ==
    /\ pc = "loop"
    /\ \E line \in CommandInputs :
         /\ line = CMD_ADD
         /\ \E input \in ElementInputs :
              IF input.num.ok
              THEN /\ \/ input.num.val \in Range(elements)
                      \/ Len(elements) < MaxSize
                   /\ \E h \in insert(elements, input.num.val) :
                         /\ Len(h) <= MaxSize
                         /\ elements' = h
                   /\ inserted' = (input.num.val \notin Range(elements))
                   /\ Printed(Some(CMD_ADD), Some(input.text), OUT_ADDED)
              ELSE /\ UNCHANGED elements
                   /\ inserted' = FALSE
                   /\ Printed(Some(CMD_ADD), Some(input.text), OUT_INVALID)
    /\ UNCHANGED <<identity, overflow_checks, pc>>

\* an identity command that forgets the identity on a line that does not
\* parse
CmdIdentityResets ==
    /\ pc = "loop"
    /\ \E line \in CommandInputs :
         /\ line = CMD_IDENTITY
         /\ \E input \in ElementInputs :
              IF input.num.ok
              THEN /\ identity' = Some(input.num.val)
                   /\ Printed(Some(CMD_IDENTITY), Some(input.text),
                              OUT_IDENTITY_SET)
              ELSE /\ identity' = None
                   /\ Printed(Some(CMD_IDENTITY), Some(input.text),
                              OUT_INVALID)
    /\ inserted' = FALSE
    /\ UNCHANGED <<elements, overflow_checks, pc>>

\* CMD_IDENTITY
CmdIdentity ==
    /\ pc = "loop"
    /\ \E line \in CommandInputs :
         /\ line = CMD_IDENTITY
         /\ \E input \in ElementInputs :
              IF input.num.ok
              THEN /\ identity' = Some(input.num.val)
                   /\ Printed(Some(CMD_IDENTITY), Some(input.text),
                              OUT_IDENTITY_SET)
              ELSE /\ UNCHANGED identity
                   /\ Printed(Some(CMD_IDENTITY), Some(input.text),
                              OUT_INVALID)
    /\ inserted' = FALSE
    /\ UNCHANGED <<elements, overflow_checks, pc>>

\* CMD_LIST
CmdList ==
    /\ pc = "loop"
    /\ \E line \in CommandInputs :
         /\ line = CMD_LIST
         /\ Printed(Some(CMD_LIST), None, OUT_LIST)
    /\ inserted' = FALSE
    /\ UNCHANGED <<elements, identity, overflow_checks, pc>>

\* CMD_HELP
CmdHelp ==
    /\ pc = "loop"
    /\ \E line \in CommandInputs :
         /\ line = CMD_HELP
         /\ Printed(Some(CMD_HELP), None, OUT_HELP)
    /\ inserted' = FALSE
    /\ UNCHANGED <<elements, identity, overflow_checks, pc>>

\* Group::new(elements.clone(), operation, id) and the match on its result
\* (the clone iterates as the set does)
Validate(id) ==
    \E r \in {new(elements, id, overflow_checks)} :
       /\ cmd' = Some(CMD_CREATE)
       /\ arg' = None
       /\ evaluated' = r.evaluated
       /\ errors' = r.errors
       /\ IF r.outcome = "panic"
          THEN out' = "" /\ pc' = "panicked"
          ELSE /\ out' = IF r.outcome = "Ok" THEN OUT_CREATED
                                             ELSE OUT_CREATE_ERROR
               /\ UNCHANGED pc

\* a create that validates with identity 0 when none was set
CmdCreateDefaultIdentity ==
    /\ pc = "loop"
    /\ \E line \in CommandInputs :
         /\ line = CMD_CREATE
         /\ IF identity # None
            THEN Validate(Unwrap(identity))
            ELSE Validate(0)
    /\ inserted' = FALSE
    /\ UNCHANGED <<elements, identity, overflow_checks>>

\* CMD_CREATE
CmdCreate ==
    /\ pc = "loop"
    /\ \E line \in CommandInputs :
         /\ line = CMD_CREATE
         /\ IF identity # None
            THEN Validate(Unwrap(identity))
            ELSE /\ Printed(Some(CMD_CREATE), None, OUT_NOT_SET)
                 /\ UNCHANGED pc
    /\ inserted' = FALSE
    /\ UNCHANGED <<elements, identity, overflow_checks>>

\* CMD_EXIT: break, and run returns Ok
CmdExit ==
    /\ pc = "loop"
    /\ \E line \in CommandInputs :
         /\ line = CMD_EXIT
         /\ Printed(Some(CMD_EXIT), None, "")
    /\ pc' = "done"
    /\ inserted' = FALSE
    /\ UNCHANGED <<elements, identity, overflow_checks>>

\* the arm _ of the match
CmdUnknown ==
    /\ pc = "loop"
    /\ \E line \in CommandInputs :
         /\ line \notin Commands
         /\ Printed(Some(line), None, OUT_UNKNOWN)
    /\ inserted' = FALSE
    /\ UNCHANGED <<elements, identity, overflow_checks, pc>>

\* user_prompt(..)? on a stream that fails: run returns the error, at the
\* command prompt or at the second prompt of add and identity
IoError ==
    /\ pc = "loop"
    /\ \/ Printed(None, None, "")
       \/ \E line \in CommandInputs :
            /\ line \in {CMD_ADD, CMD_IDENTITY}
            /\ Printed(Some(line), None, "")
    /\ pc' = "io_error"
    /\ inserted' = FALSE
    /\ UNCHANGED <<elements, identity, overflow_checks>>

Next ==
    \/ CmdAdd
    \/ CmdIdentity
    \/ CmdList
    \/ CmdHelp
    \/ CmdCreate
    \/ CmdExit
    \/ CmdUnknown
    \/ IoError

Spec == Init /\ [][Next]_vars

----------------------------------------------------------------------------
(* Properties *)

\* the working set
Elems == Range(elements)

\* the last command was a create that found the identity set
Validated == cmd = Some(CMD_CREATE) /\ identity # None

\* the remainder of the truncating division of x by n, n > 0
TruncRem(x, n) ==
    CHOOSE r \in (IF x >= 0 THEN 0..(n - 1) ELSE (1 - n)..0) : (x - r) % n = 0

\* (a + b) rem n over the integers, for a and b in i32 and n > 0 (a sum
\* outside i32 has the sign of both its terms)
MathOp(a, b, n) ==
    IF ~AddOverflows(a, b) THEN TruncRem(a + b, n)
    ELSE IF a > 0 THEN (TruncRem(a, n) + TruncRem(b, n)) % n
    ELSE -(((-TruncRem(a, n)) + (-TruncRem(b, n))) % n)

MathClosed(S, n) == \A x, y \in S : MathOp(x, y, n) \in S

MathAssociative(S, n) ==
    \A a, b, c \in S :
        MathOp(MathOp(a, b, n), c, n) = MathOp(a, MathOp(b, c, n), n)

MathIdentity(S, e, n) ==
    \A x \in S : MathOp(x, e, n) = x /\ MathOp(e, x, n) = x

MathInverses(S, e, n) ==
    \A a \in S : \E b \in S : MathOp(a, b, n) = e /\ MathOp(b, a, n) = e

MathGroup(S, e) ==
    LET n == Cardinality(S)
    IN /\ MathClosed(S, n)
       /\ MathAssociative(S, n)
       /\ MathIdentity(S, e, n)
       /\ MathInverses(S, e, n)

\* C1: a create with the identity set reports a created group if and only
\* if the working set, with n its cardinality at that moment, is closed and
\* associative under (a + b) rem n, has the identity as two-sided identity
\* and a two-sided inverse for every element.
C1_CreateIffAxioms ==
    Validated => ((out = OUT_CREATED) <=> MathGroup(Elems, Unwrap(identity)))

\* a group of three elements was created
C1_Witness ==
    Validated /\ out = OUT_CREATED /\ Cardinality(Elems) = 3

\* the four axioms as the build evaluates the operation, over the set and
\* whatever the order of iteration: an evaluation that panics satisfies
\* nothing
Op(a, b) == operation(a, b, Cardinality(Elems), overflow_checks)

ClosureHolds == \A x, y \in Elems : Op(x, y).ok /\ Op(x, y).val \in Elems

AssociativityHolds ==
    \A a, b, c \in Elems :
        /\ Op(a, b).ok /\ Op(b, c).ok
        /\ Op(Op(a, b).val, c).ok /\ Op(a, Op(b, c).val).ok
        /\ Op(Op(a, b).val, c).val = Op(a, Op(b, c).val).val

IdentityHolds ==
    \A x \in Elems :
        /\ Op(x, Unwrap(identity)) = Value(x)
        /\ Op(Unwrap(identity), x) = Value(x)

InversesHold ==
    \A a \in Elems : \E b \in Elems :
        /\ Op(a, b) = Value(Unwrap(identity))
        /\ Op(b, a) = Value(Unwrap(identity))

\* the positions of the messages in the order of the checks
MessageIndex ==
    [m \in {MSG_CLOSURE, MSG_ASSOCIATIVE, MSG_IDENTITY, MSG_INVERSE} |->
        IF m = MSG_CLOSURE THEN 1
        ELSE IF m = MSG_ASSOCIATIVE THEN 2
        ELSE IF m = MSG_IDENTITY THEN 3 ELSE 4]

\* C2: when a validation returns an error, the four checks were all called,
\* in the order closure, associativity, identity, inverses, and the error
\* holds the message of an axiom if and only if that axiom fails, the
\* messages in the order of the checks.
C2_EveryFailingAxiomListed ==
    (Validated /\ out = OUT_CREATE_ERROR) =>
        /\ evaluated = Axioms
        /\ (MSG_CLOSURE \in Range(errors)) <=> ~ClosureHolds
        /\ (MSG_ASSOCIATIVE \in Range(errors)) <=> ~AssociativityHolds
        /\ (MSG_IDENTITY \in Range(errors)) <=> ~IdentityHolds
        /\ (MSG_INVERSE \in Range(errors)) <=> ~InversesHold
        /\ \A i, j \in 1..Len(errors) :
              i < j => MessageIndex[errors[i]] < MessageIndex[errors[j]]

\* a validation failed on a later axiom after an earlier one had failed
C2_Witness ==
    /\ Validated
    /\ out = OUT_CREATE_ERROR
    /\ Len(errors) >= 2
    /\ MSG_INVERSE \in Range(errors)

\* C3: a create on the empty working set with the identity set reports a
\* failure: no group is created and the loop goes on.
C3_EmptySetFails ==
    (Validated /\ elements = <<>>) =>
        (out = OUT_CREATE_ERROR /\ errors # <<>> /\ pc = "loop")

\* C4: a create on a working set that is not empty and does not hold the
\* identity reports a failure with at least one axiom listed.
C4_NonMemberIdentityFails ==
    (Validated /\ elements # <<>> /\ Unwrap(identity) \notin Elems) =>
        (out = OUT_CREATE_ERROR /\ Len(errors) >= 1)

\* C5: the working set {0, ..., n-1}, n >= 1, with identity 0 validates:
\* the create reports a created group, with no axiom failing.
C5_InitialSegmentValidates ==
    (Validated /\ identity = Some(0) /\ elements # <<>>
        /\ Elems = 0..(Cardinality(Elems) - 1)) =>
        (out = OUT_CREATED /\ errors = <<>> /\ pc = "loop")

\* {0, 1, 2} with identity 0 was validated
C5_Witness ==
    /\ Validated
    /\ identity = Some(0)
    /\ Elems = {0, 1, 2}
    /\ out = OUT_CREATED

\* C6: a create before any identity command was given an integer reports
\* that the identity is not set, calls no axiom check and changes nothing;
\* an axiom check is called only with the identity set, and the identity
\* gets set only by an identity command given an integer, for good.
C6_IdentityFirst ==
    [][ /\ (cmd' = Some(CMD_CREATE) /\ identity = None) =>
            /\ out' = OUT_NOT_SET
            /\ evaluated' = <<>>
            /\ errors' = <<>>
            /\ UNCHANGED <<elements, identity, pc>>
        /\ (evaluated' # <<>> \/ out' \in {OUT_CREATED, OUT_CREATE_ERROR}
              \/ pc' = "panicked") => identity # None
        /\ (identity = None /\ identity' # None) =>
            /\ cmd' = Some(CMD_IDENTITY)
            /\ arg' # None
            /\ from_str(Unwrap(arg')).ok
        /\ identity # None => identity' # None
      ]_vars

\* a create was issued on a working set that is not empty before the
\* identity was set
C6_Witness ==
    /\ cmd = Some(CMD_CREATE)
    /\ identity = None
    /\ out = OUT_NOT_SET
    /\ elements # <<>>

\* C7: no create ends the process (no arithmetic fault in the operation),
\* and the loop ends on exit only.
C7_NothingFatal ==
    /\ pc # "panicked"
    /\ pc = "done" => cmd = Some(CMD_EXIT)

\* the line read at the second prompt is an integer
ArgIsInteger(a) == a # None /\ from_str(Unwrap(a)).ok

\* C8: the working set changes only on an add given an integer, which
\* joins the set; the identity changes only on an identity command given
\* an integer, which it becomes; an identity command given anything else
\* leaves the identity as it was; every other command, a create that
\* succeeds or fails and any unrecognized line leave both as they were, and
\* a create repeated right after a create gives the same verdict.
C8_Frame ==
    [][ /\ elements' # elements =>
            /\ cmd' = Some(CMD_ADD)
            /\ ArgIsInteger(arg')
            /\ Range(elements') =
                   Range(elements) \cup {from_str(Unwrap(arg')).val}
        /\ identity' # identity =>
            /\ cmd' = Some(CMD_IDENTITY)
            /\ ArgIsInteger(arg')
            /\ identity' = Some(from_str(Unwrap(arg')).val)
        /\ (cmd' = Some(CMD_IDENTITY) /\ ~ArgIsInteger(arg')) =>
            identity' = identity
        /\ cmd' \notin {Some(CMD_ADD), Some(CMD_IDENTITY)} =>
            UNCHANGED <<elements, identity>>
        /\ (cmd = Some(CMD_CREATE) /\ cmd' = Some(CMD_CREATE)) =>
            (out' = out /\ errors' = errors /\ pc' = pc)
      ]_vars

\* an identity command was given a line that is no integer while an
\* identity was set
C8_Witness ==
    /\ cmd = Some(CMD_IDENTITY)
    /\ out = OUT_INVALID
    /\ identity # None

C10_ValidatedShape ==
    (Validated /\ out = OUT_CREATED /\ elements # <<>>) =>
        /\ identity = Some(0)
        /\ \A x \in Elems : -Cardinality(Elems) < x /\ x < Cardinality(Elems)
        /\ (\A x \in Elems : x >= 0) => Elems = 0..(Cardinality(Elems) - 1)

\* a working set with a negative element validated
C10_Witness ==
    /\ Validated
    /\ out = OUT_CREATED
    /\ \E x \in Elems : x < 0

====
